---- MODULE Spec2Model ----
(***************************************************************************)
(* Hybrid retrieval (BM25 + dense, Reciprocal Rank Fusion), the caches of  *)
(* symbol and query vectors, and the cross-encoder reranking filter of     *)
(* labrem/neus2026-labre.                                                  *)
(*                                                                         *)
(* Numbers.  The program works on floats; the model uses exact integers:   *)
(*   - a relevance score is an integer count of half ten-thousandths       *)
(*     (1 unit = 0.00005), so that round(score, 4) is a real conversion;   *)
(*   - a weight is an integer count of halves (1 unit = 0.5);              *)
(*   - a fused score is kept over the common denominator 2 * RrfDen(n).    *)
(***************************************************************************)
EXTENDS Integers, Sequences, FiniteSets, TLC

VARIABLES
    symbols,    \* HybridRetriever.symbols: the catalogue, in catalogue order
    embeddings, \* HybridRetriever.embeddings: one stored vector per symbol
    argsortTies,\* how this build's np.argsort orders equal keys
    call,       \* the retrieval call last made: its operation and arguments
    res,        \* what that call returned
    locals,     \* the local arrays of that call (ranks, fused scores)
    prev,       \* the result of the call before it, when it had the same arguments
    rcall,      \* the reranker call last made: its operation and arguments
    rres,       \* what that call returned
    files       \* the persisted caches: the symbol vectors and the query vectors

rvars == <<rcall, rres>>
hvars == <<symbols, embeddings, argsortTies, call, res, locals, prev, files>>
vars == <<symbols, embeddings, argsortTies, call, res, locals, prev, rcall, rres, files>>

Max(a, b) == IF a >= b THEN a ELSE b
Min(a, b) == IF a <= b THEN a ELSE b

(***************************************************************************)
(* Bounds and value domains of the reranking filter.                       *)
(***************************************************************************)
MaxCand == 3                      \* longest candidate list
MaxScore == 4                     \* largest raw score a scoring call returns

Scores == 0..MaxScore
Thresholds == {0, 2, 3}
MinKeeps == 0..MaxCand
Backends == {"vllm", "cross-encoder", "ollama"}

\* What one scoring call can do: answer a score, fail on the transport
\* (connection error, timeout, non-2xx status, undecodable body), or answer
\* a body of the wrong shape.
Outcomes ==
    [kind : {"score"}, value : Scores]
        \cup {[kind |-> "neterr", value |-> 0], [kind |-> "malformed", value |-> 0]}

Answered(outcome) == outcome.kind = "score"

\* The i-th candidate symbol of a candidate list: ids (cd, name) are distinct,
\* names repeat across content dictionaries.
Candidate(i) == [cd |-> i % 2, name |-> (i + 1) \div 2]
Candidates(n) == [i \in 1..n |-> Candidate(i)]

\* f"{symbol.get('cd', '')}:{symbol.get('name', '')}"
SymbolIdOf(symbol) == <<symbol.cd, symbol.name>>

\* round(score, 4): to the nearest ten-thousandth (2 units), halves to even.
Round4(s) ==
    LET q == s \div 2
    IN  IF s % 2 = 0 THEN s
        ELSE IF q % 2 = 0 THEN 2 * q ELSE 2 * (q + 1)

(***************************************************************************)
(* list.sort(key = score, reverse = True): stable, descending.  Elements   *)
(* are pairs <<item, key>>.                                                *)
(***************************************************************************)
RECURSIVE InsertDesc(_, _)
InsertDesc(sorted, x) ==
    IF sorted = << >> THEN <<x>>
    ELSE IF Head(sorted)[2] >= x[2]
         THEN <<Head(sorted)>> \o InsertDesc(Tail(sorted), x)
         ELSE <<x>> \o sorted

RECURSIVE SortDesc(_)
SortDesc(s) ==
    IF s = << >> THEN << >>
    ELSE InsertDesc(SortDesc(SubSeq(s, 1, Len(s) - 1)), s[Len(s)])

\* The mutant of apply_threshold_rule that forgets the scores above the
\* threshold: keep_count = min(min_keep, len(scored)).
apply_threshold_rule_min_keep_only(candidates, scores, threshold, min_keep) ==
    LET n == Min(Len(candidates), Len(scores))
        scored == SortDesc([i \in 1..n |-> <<candidates[i], scores[i]>>])
    IN  SubSeq(scored, 1, Min(min_keep, Len(scored)))

apply_threshold_rule(candidates, scores, threshold, min_keep) ==
    LET n == Min(Len(candidates), Len(scores))
        scored == SortDesc([i \in 1..n |-> <<candidates[i], scores[i]>>])
        above_threshold_count ==
            Cardinality({i \in 1..Len(scored) : scored[i][2] >= threshold})
        keep_count == Min(Max(min_keep, above_threshold_count), Len(scored))
    IN  SubSeq(scored, 1, keep_count)

(***************************************************************************)
(* RerankerResult and the three backends' rerank.                          *)
(***************************************************************************)
\* The mutant of AllScores that records a candidate only when its score is
\* not the sentinel 0.
AllScoresWithoutSentinel(candidates, sc, m) ==
    [id \in {SymbolIdOf(candidates[i]) : i \in {j \in 1..m : sc[j] # 0}} |->
        LET last == CHOOSE i \in 1..m :
                /\ SymbolIdOf(candidates[i]) = id
                /\ \A j \in 1..m : SymbolIdOf(candidates[j]) = id => j <= i
        IN  sc[last]]

\* all_scores after the candidates 1..m were recorded with the scores sc.
AllScores(candidates, sc, m) ==
    [id \in {SymbolIdOf(candidates[i]) : i \in 1..m} |->
        LET last == CHOOSE i \in 1..m :
                /\ SymbolIdOf(candidates[i]) = id
                /\ \A j \in 1..m : SymbolIdOf(candidates[j]) = id => j <= i
        IN  sc[last]]

RerankerResult(count, reranked, all, ok) ==
    [original_count |-> count,
     reranked_symbols |-> reranked,
     all_scores |-> all,
     success |-> ok,
     error |-> IF ok THEN "None" ELSE "exception"]

\* [symbol, reranker_score] entries out of <<symbol, score>> pairs.
Reranked(pairs) ==
    [k \in 1..Len(pairs) |-> [symbol |-> pairs[k][1], reranker_score |-> pairs[k][2]]]

\* The positions of seq that satisfy Keep, in order.
RECURSIVE Positions(_, _, _)
Positions(n, i, keep) ==
    IF i > n THEN << >>
    ELSE IF i \in keep THEN <<i>> \o Positions(n, i + 1, keep)
         ELSE Positions(n, i + 1, keep)

\* VLLMReranker.score: a transport failure is answered with 0.0; a body of
\* the wrong shape raises out of score.
VLLMScore(outcome) ==
    IF Answered(outcome) THEN outcome.value ELSE 0

VLLMRerank(candidates, outcomes, threshold, min_keep) ==
    LET n == Len(candidates)
        bad == {i \in 1..n : outcomes[i].kind = "malformed"}
        scores == [i \in 1..n |-> VLLMScore(outcomes[i])]
    IN  IF bad # {}
        THEN \* the exception leaves the scores recorded so far in the result
             LET first == CHOOSE i \in bad : \A j \in bad : i <= j
             IN  RerankerResult(n, << >>,
                                AllScores(candidates, scores, first - 1), FALSE)
        ELSE LET kept == apply_threshold_rule(candidates, scores, threshold, min_keep)
             IN  RerankerResult(n,
                    Reranked([k \in 1..Len(kept) |-> <<kept[k][1], Round4(kept[k][2])>>]),
                    AllScores(candidates, scores, n), TRUE)

\* SentenceTransformerReranker.rerank: one predict call scores the whole
\* list; min_keep is stored by the constructor and not read here.
SentenceTransformerRerank(candidates, outcomes, threshold, min_keep) ==
    LET n == Len(candidates)
        scores == [i \in 1..n |-> outcomes[i].value]
    IN  IF \E i \in 1..n : ~Answered(outcomes[i])
        THEN RerankerResult(n, << >>, << >>, FALSE)
        ELSE LET pos == Positions(n, 1, {i \in 1..n : scores[i] >= threshold})
                 kept == [k \in 1..Len(pos) |->
                            <<candidates[pos[k]], Round4(scores[pos[k]])>>]
             IN  RerankerResult(n, Reranked(SortDesc(kept)),
                                AllScores(candidates, scores, n), TRUE)

\* OllamaReranker.rerank: a failed call records 0.0 for the candidate and
\* goes on; the class has no min_keep.
OllamaRerank(candidates, outcomes, threshold, min_keep) ==
    LET n == Len(candidates)
        ok == {i \in 1..n : Answered(outcomes[i])}
        scores == [i \in 1..n |-> IF i \in ok THEN outcomes[i].value ELSE 0]
        pos == Positions(n, 1, {i \in ok : scores[i] >= threshold})
        kept == [k \in 1..Len(pos) |-> <<candidates[pos[k]], scores[pos[k]]>>]
    IN  RerankerResult(n, Reranked(SortDesc(kept)),
                       AllScores(candidates, scores, n), TRUE)

RerankOf(backend, candidates, outcomes, threshold, min_keep) ==
    CASE backend = "vllm" ->
            VLLMRerank(candidates, outcomes, threshold, min_keep)
      [] backend = "cross-encoder" ->
            SentenceTransformerRerank(candidates, outcomes, threshold, min_keep)
      [] backend = "ollama" ->
            OllamaRerank(candidates, outcomes, threshold, min_keep)

(***************************************************************************)
(* The catalogue and the vector store.                                     *)
(***************************************************************************)
NumSymbols == 3                   \* largest catalogue
RrfK == 60                        \* HybridRetriever.rrf_k

\* The i-th symbol of the knowledge base.  Ids are unique (the knowledge
\* base is a dict keyed by id); the symbols 2j-1 and 2j share their name
\* and differ in their content dictionary.
Symbol(i) ==
    [id |-> <<i % 2, (i + 1) \div 2>>, cd |-> i % 2, name |-> (i + 1) \div 2,
     sympy_function |-> (i % 3 # 2)]

Catalogue(n) == [i \in 1..n |-> Symbol(i)]

\* What the embedding service answers for the text of the i-th symbol.
SymbolVector(i) ==
    CASE i % 4 = 1 -> <<1, 0>>
      [] i % 4 = 2 -> <<1, 1>>
      [] i % 4 = 3 -> <<0, 1>>
      [] OTHER     -> <<-1, 1>>

\* Query vectors the embedding service answers.
QueryVectors == {<<0, 0>>, <<1, 0>>, <<1, 2>>, <<-1, -2>>, <<-2, -1>>}

\* One call of _embed: the vector of the text, or a raised RequestException.
EmbedOutcomes ==
    [kind : {"vector"}, value : QueryVectors] \cup {[kind |-> "error", value |-> <<0, 0>>]}

\* The BM25 scores get_all_scores can return for a query over n symbols
\* (0 = no term overlap).
Bm25Values == 0..2
Bm25Vectors(n) == [1..n -> Bm25Values]

\* np.argsort with the default kind promises no order among equal keys.
\* "stable" is the order a stable sort gives (catalogue order), "reverse"
\* the opposite one.
TiePolicies == {"stable", "reverse"}

(***************************************************************************)
(* Cosine similarity.  embeddings_norm @ query_norm, where a vector is     *)
(* divided by (its norm + 1e-10): an all-zero vector stays all-zero and    *)
(* scores 0.  The model keeps sign(cos) * cos^2 * 1600, an integer for     *)
(* the vectors used here (squared norms divide 40), which orders and       *)
(* equates symbols exactly as the cosine does.                             *)
(***************************************************************************)
Dot(u, v) == u[1] * v[1] + u[2] * v[2]
NormSq(v) == Dot(v, v)

Cosine(e, q) ==
    IF NormSq(e) = 0 \/ NormSq(q) = 0 THEN 0
    ELSE LET d == Dot(e, q)
             sq == d * d * (40 \div NormSq(e)) * (40 \div NormSq(q))
         IN  IF d < 0 THEN 0 - sq ELSE sq

\* retrieve, lines 387-391.
DenseScoresRetrieve(embs, q) == [i \in 1..Len(embs) |-> Cosine(embs[i], q)]

\* The mutant of the precomputed-vector path that leaves the query vector
\* unnormalised: the dense score becomes a scaled dot product.
DenseScoresUnnormalised(embs, q) ==
    [i \in 1..Len(embs) |->
        IF NormSq(embs[i]) = 0 THEN 0
        ELSE LET d == Dot(embs[i], q)
                 sq == d * d * (40 \div NormSq(embs[i])) * 40
             IN  IF d < 0 THEN 0 - sq ELSE sq]

\* _retrieve_with_embedding, lines 491-495.
DenseScoresWithEmbedding(embs, q) == [i \in 1..Len(embs) |-> Cosine(embs[i], q)]

(***************************************************************************)
(* np.argsort(-scores): the indices in descending order of score; among    *)
(* equal scores the build's tie order decides.                             *)
(***************************************************************************)
\* The mutant of TieBefore whose order depends on what the last call
\* returned: symbols returned by the last call go last.
TieBeforeByLastResult(i, j) ==
    LET returned(x) == call.op = "retrieve" /\ \E k \in 1..Len(res.symbol_ids) :
                            res.symbol_ids[k] = symbols[x].id
    IN  IF returned(i) # returned(j) THEN returned(j)
        ELSE IF argsortTies = "stable" THEN i < j ELSE i > j

TieBefore(i, j) ==
    IF argsortTies = "stable" THEN i < j ELSE i > j

\* np.argsort(scores) without the negation: ascending order.
ArgsortAscending(scores) ==
    LET n == Len(scores)
        pos(i) == Cardinality({j \in 1..n :
                      \/ scores[j] < scores[i]
                      \/ scores[j] = scores[i] /\ j # i /\ TieBefore(j, i)})
    IN  [p \in 1..n |-> CHOOSE i \in 1..n : pos(i) = p - 1]

ArgsortDesc(scores) ==
    LET n == Len(scores)
        pos(i) == Cardinality({j \in 1..n :
                      \/ scores[j] > scores[i]
                      \/ scores[j] = scores[i] /\ j # i /\ TieBefore(j, i)})
    IN  [p \in 1..n |-> CHOOSE i \in 1..n : pos(i) = p - 1]

\* The 0-based position of idx in an argsort result.
RankOf(order, idx) == (CHOOSE p \in 1..Len(order) : order[p] = idx) - 1

(***************************************************************************)
(* Reciprocal Rank Fusion.  weight / (rrf_k + rank + 1) is kept over the   *)
(* common denominator 2 * RrfDen(n), RrfDen(n) = (rrf_k+1)...(rrf_k+n).    *)
(***************************************************************************)
RECURSIVE RrfDen(_)
RrfDen(n) == IF n = 0 THEN 1 ELSE (RrfK + n) * RrfDen(n - 1)

\* The mutant of RrfTerm that drops the weight (unweighted fusion).
RrfTermUnweighted(weight, rank, n) == RrfDen(n) \div (RrfK + rank + 1)

\* The mutant of RrfTerm that rewards the low ranks: the term of rank r is
\* the one rank n-1-r should get.
RrfTermReversed(weight, rank, n) == weight * (RrfDen(n) \div (RrfK + (n - 1 - rank) + 1))

\* The mutant of RrfTerm that adds ranks instead of reciprocal ranks: the
\* term of rank r is weight * (n - r).
RrfTermLinear(weight, rank, n) == weight * (n - rank)

RrfTerm(weight, rank, n) == weight * (RrfDen(n) \div (RrfK + rank + 1))

\* score < min_rrf_score, min_rrf_score counted in thousandths.
BelowMinRrf(score, min_rrf_score, n) == 500 * score < min_rrf_score * RrfDen(n)

(***************************************************************************)
(* HybridRetrievalResult and the selection walk over top_indices.          *)
(***************************************************************************)
EmptyResult(query) ==
    [query |-> query, symbols |-> << >>, symbol_ids |-> << >>,
     scores |-> << >>, bm25_scores |-> << >>, dense_scores |-> << >>]

NoLocals == [ran |-> FALSE]

\* The mutant of SelectionWalk that stops one symbol late
\* (len(result.symbols) > top_k).
RECURSIVE SelectionWalkOneMore(_, _, _, _, _, _)
SelectionWalkOneMore(top_indices, k, taken, seen, rrf_scores, a) ==
    IF k > Len(top_indices) \/ Len(taken) > a.top_k THEN taken
    ELSE LET idx == top_indices[k]
             symbol == symbols[idx]
         IN  IF BelowMinRrf(rrf_scores[idx], a.min_rrf_score, Len(symbols))
             THEN SelectionWalkOneMore(top_indices, k + 1, taken, seen, rrf_scores, a)
             ELSE IF a.require_sympy /\ ~symbol.sympy_function
             THEN SelectionWalkOneMore(top_indices, k + 1, taken, seen, rrf_scores, a)
             ELSE IF a.deduplicate /\ symbol.id \in seen
             THEN SelectionWalkOneMore(top_indices, k + 1, taken, seen, rrf_scores, a)
             ELSE SelectionWalkOneMore(top_indices, k + 1, Append(taken, idx),
                                IF a.deduplicate THEN seen \cup {symbol.id} ELSE seen,
                                rrf_scores, a)

\* The mutant of SelectionWalk that deduplicates by bare symbol name.
RECURSIVE SelectionWalkByName(_, _, _, _, _, _)
SelectionWalkByName(top_indices, k, taken, seen, rrf_scores, a) ==
    IF k > Len(top_indices) \/ Len(taken) >= a.top_k THEN taken
    ELSE LET idx == top_indices[k]
             symbol == symbols[idx]
         IN  IF BelowMinRrf(rrf_scores[idx], a.min_rrf_score, Len(symbols))
             THEN SelectionWalkByName(top_indices, k + 1, taken, seen, rrf_scores, a)
             ELSE IF a.require_sympy /\ ~symbol.sympy_function
             THEN SelectionWalkByName(top_indices, k + 1, taken, seen, rrf_scores, a)
             ELSE IF a.deduplicate /\ symbol.name \in seen
             THEN SelectionWalkByName(top_indices, k + 1, taken, seen, rrf_scores, a)
             ELSE SelectionWalkByName(top_indices, k + 1, Append(taken, idx),
                                IF a.deduplicate THEN seen \cup {symbol.name} ELSE seen,
                                rrf_scores, a)

\* The mutant of SelectionWalk that cuts top_indices to its first top_k
\* entries before filtering: a skipped symbol uses up a slot.
RECURSIVE SelectionWalkCutFirst(_, _, _, _, _, _)
SelectionWalkCutFirst(top_indices, k, taken, seen, rrf_scores, a) ==
    IF k > Len(top_indices) \/ k > a.top_k THEN taken
    ELSE LET idx == top_indices[k]
             symbol == symbols[idx]
         IN  IF BelowMinRrf(rrf_scores[idx], a.min_rrf_score, Len(symbols))
             THEN SelectionWalkCutFirst(top_indices, k + 1, taken, seen, rrf_scores, a)
             ELSE IF a.require_sympy /\ ~symbol.sympy_function
             THEN SelectionWalkCutFirst(top_indices, k + 1, taken, seen, rrf_scores, a)
             ELSE IF a.deduplicate /\ symbol.id \in seen
             THEN SelectionWalkCutFirst(top_indices, k + 1, taken, seen, rrf_scores, a)
             ELSE SelectionWalkCutFirst(top_indices, k + 1, Append(taken, idx),
                                IF a.deduplicate THEN seen \cup {symbol.id} ELSE seen,
                                rrf_scores, a)

\* The walk from position k of top_indices on; taken are the catalogue
\* indices appended to the result so far, seen is seen_ids.
RECURSIVE SelectionWalk(_, _, _, _, _, _)
SelectionWalk(top_indices, k, taken, seen, rrf_scores, a) ==
    IF k > Len(top_indices) \/ Len(taken) >= a.top_k THEN taken
    ELSE LET idx == top_indices[k]
             symbol == symbols[idx]
         IN  IF BelowMinRrf(rrf_scores[idx], a.min_rrf_score, Len(symbols))
             THEN SelectionWalk(top_indices, k + 1, taken, seen, rrf_scores, a)
             ELSE IF a.require_sympy /\ ~symbol.sympy_function
             THEN SelectionWalk(top_indices, k + 1, taken, seen, rrf_scores, a)
             ELSE IF a.deduplicate /\ symbol.id \in seen
             THEN SelectionWalk(top_indices, k + 1, taken, seen, rrf_scores, a)
             ELSE SelectionWalk(top_indices, k + 1, Append(taken, idx),
                                IF a.deduplicate THEN seen \cup {symbol.id} ELSE seen,
                                rrf_scores, a)

\* A dict keyed by the ids of the taken symbols; a later entry of the same
\* id overwrites an earlier one.
ScoreMap(taken, values) ==
    [id \in {symbols[taken[k]].id : k \in 1..Len(taken)} |->
        LET last == CHOOSE k \in 1..Len(taken) :
                /\ symbols[taken[k]].id = id
                /\ \A l \in 1..Len(taken) : symbols[taken[l]].id = id => l <= k
        IN  values[taken[last]]]

BuildResult(query, taken, rrf_scores, bm25_scores, dense_scores) ==
    [query |-> query,
     symbols |-> [k \in 1..Len(taken) |-> symbols[taken[k]]],
     symbol_ids |-> [k \in 1..Len(taken) |-> symbols[taken[k]].id],
     scores |-> ScoreMap(taken, rrf_scores),
     bm25_scores |-> ScoreMap(taken, bm25_scores),
     dense_scores |-> ScoreMap(taken, dense_scores)]

(***************************************************************************)
(* HybridRetriever.retrieve.  A query is known to the retriever by the     *)
(* BM25 score vector get_all_scores returns for it (a.query) and by what   *)
(* the embedding service answers for it (a.embed).                         *)
(***************************************************************************)
retrieve(a) ==
    LET n == Len(symbols)
    IN  IF n = 0 THEN [result |-> EmptyResult(a.query), locals |-> NoLocals]
        ELSE IF a.embed.kind = "error"
        THEN [result |-> EmptyResult(a.query), locals |-> NoLocals]
        ELSE
        LET bm25_scores == a.query
            dense_scores == DenseScoresRetrieve(embeddings, a.embed.value)
            bm25_ranks == ArgsortDesc(bm25_scores)
            dense_ranks == ArgsortDesc(dense_scores)
            rrf_scores == [idx \in 1..n |->
                RrfTerm(a.bm25_weight, RankOf(bm25_ranks, idx), n)
                    + RrfTerm(a.dense_weight, RankOf(dense_ranks, idx), n)]
            top_indices == ArgsortDesc(rrf_scores)
            taken == SelectionWalk(top_indices, 1, << >>, {}, rrf_scores, a)
        IN  [result |-> BuildResult(a.query, taken, rrf_scores, bm25_scores, dense_scores),
             locals |-> [ran |-> TRUE, bm25_scores |-> bm25_scores,
                         dense_scores |-> dense_scores, bm25_ranks |-> bm25_ranks,
                         dense_ranks |-> dense_ranks, rrf_scores |-> rrf_scores,
                         top_indices |-> top_indices]]

\* HybridRetriever._retrieve_with_embedding: the same fusion on a vector
\* the caller supplies.
retrieve_with_embedding(a, query_embedding) ==
    LET n == Len(symbols)
    IN  IF n = 0 THEN EmptyResult(a.query)
        ELSE
        LET bm25_scores == a.query
            dense_scores == DenseScoresWithEmbedding(embeddings, query_embedding)
            bm25_ranks == ArgsortDesc(bm25_scores)
            dense_ranks == ArgsortDesc(dense_scores)
            rrf_scores == [idx \in 1..n |->
                RrfTerm(a.bm25_weight, RankOf(bm25_ranks, idx), n)
                    + RrfTerm(a.dense_weight, RankOf(dense_ranks, idx), n)]
            top_indices == ArgsortDesc(rrf_scores)
            taken == SelectionWalk(top_indices, 1, << >>, {}, rrf_scores, a)
        IN  BuildResult(a.query, taken, rrf_scores, bm25_scores, dense_scores)

\* The arguments retrieve_batch passes on: the rest keep their defaults.
BatchArgs(problem, top_k, bm25_weight, dense_weight) ==
    [query |-> problem.query, embed |-> problem.embed, top_k |-> top_k,
     bm25_weight |-> bm25_weight, dense_weight |-> dense_weight,
     min_rrf_score |-> 0, require_sympy |-> FALSE, deduplicate |-> TRUE]

\* A lookup that pairs the ids with the rows as far as both go instead of
\* giving up when their lengths differ.
EmbeddingLookupTruncated(concept_embeddings, concept_problem_ids) ==
    IF concept_embeddings.is_none \/ concept_problem_ids.is_none THEN << >>
    ELSE LET ids == concept_problem_ids.value
             n == Min(Len(ids), Len(concept_embeddings.value))
         IN  [pid \in {ids[i] : i \in 1..n} |->
                LET last == CHOOSE i \in 1..n :
                        /\ ids[i] = pid
                        /\ \A j \in 1..n : ids[j] = pid => j <= i
                IN  concept_embeddings.value[last]]

\* embedding_lookup of retrieve_batch: empty unless both arrays are given
\* and agree in length; a repeated id keeps its last row.
EmbeddingLookup(concept_embeddings, concept_problem_ids) ==
    IF concept_embeddings.is_none \/ concept_problem_ids.is_none THEN << >>
    ELSE IF Len(concept_problem_ids.value) # Len(concept_embeddings.value) THEN << >>
    ELSE LET ids == concept_problem_ids.value
         IN  [pid \in {ids[i] : i \in 1..Len(ids)} |->
                LET last == CHOOSE i \in 1..Len(ids) :
                        /\ ids[i] = pid
                        /\ \A j \in 1..Len(ids) : ids[j] = pid => j <= i
                IN  concept_embeddings.value[last]]

\* HybridRetriever.retrieve_batch: problems is concepts_by_problem in its
\* iteration order, each problem with its id, its query and what the
\* embedding service would answer for the query.
retrieve_batch(problems, top_k, bm25_weight, dense_weight, concept_embeddings, concept_problem_ids) ==
    LET embedding_lookup == EmbeddingLookup(concept_embeddings, concept_problem_ids)
        resultOf(problem) ==
            IF problem.pid \in DOMAIN embedding_lookup
            THEN retrieve_with_embedding(
                    BatchArgs(problem, top_k, bm25_weight, dense_weight),
                    embedding_lookup[problem.pid])
            ELSE retrieve(BatchArgs(problem, top_k, bm25_weight, dense_weight)).result
    IN  [pid \in {problems[i].pid : i \in 1..Len(problems)} |->
            LET last == CHOOSE i \in 1..Len(problems) :
                    /\ problems[i].pid = pid
                    /\ \A j \in 1..Len(problems) : problems[j].pid = pid => j <= i
            IN  resultOf(problems[last])]

(***************************************************************************)
(* The retriever as a state machine.  Construction has loaded the          *)
(* catalogue and the stored vectors; a call is made from the idle state,   *)
(* may be repeated with the same arguments, and its result is held until   *)
(* the caller has taken it.                                                *)
(***************************************************************************)
WeightPairs == {<<1, 1>>, <<0, 0>>, <<1, 0>>, <<0, 1>>, <<1, 2>>, <<2, 1>>}
MinRrfScores == {0, 16}

\* The argument tuples of retrieve: every query, vector, top_k and weight
\* pair with the filters at their defaults, and every filter setting with
\* the default weights.
RetrieveArgs(n) ==
    [query : Bm25Vectors(n), embed : EmbedOutcomes, top_k : 0..(n + 1),
     bm25_weight : {0, 1, 2}, dense_weight : {0, 1, 2},
     min_rrf_score : MinRrfScores, require_sympy : BOOLEAN, deduplicate : BOOLEAN]

PlainArgs(a) ==
    /\ <<a.bm25_weight, a.dense_weight>> \in WeightPairs
    /\ a.min_rrf_score = 0 /\ ~a.require_sympy

FilterArgs(a) ==
    /\ a.bm25_weight = 1 /\ a.dense_weight = 1 /\ a.deduplicate

None == [is_none |-> TRUE, value |-> << >>]
Some(x) == [is_none |-> FALSE, value |-> x]

\* A cache file: absent, unreadable, or a table of rows.
NoFile == [kind |-> "absent", rows |-> << >>]
Unreadable == [kind |-> "corrupt", rows |-> << >>]
Table(rows) == [kind |-> "table", rows |-> rows]

\* No cache file on disk.
NoFiles == [embeddings_cache |-> NoFile, concepts_cache |-> NoFile]

HIdle(n, ties) ==
    /\ symbols = Catalogue(n)
    /\ embeddings = [i \in 1..n |-> SymbolVector(i)]
    /\ argsortTies = ties
    /\ call = [op |-> "none"]
    /\ res = [op |-> "none"]
    /\ locals = NoLocals
    /\ prev = [same |-> FALSE]

\* A retrieve that saves the vectors it holds to the cache file.
RetrieveSavingVectors ==
    /\ call.op = "none"
    /\ \E a \in RetrieveArgs(Len(symbols)) :
        /\ PlainArgs(a) \/ FilterArgs(a)
        /\ call' = [op |-> "retrieve", args |-> a]
        /\ res' = retrieve(a).result
        /\ locals' = retrieve(a).locals
    /\ prev' = [same |-> FALSE]
    /\ files' = [files EXCEPT !.embeddings_cache = Table(embeddings)]
    /\ UNCHANGED <<symbols, embeddings, argsortTies, rvars>>

Retrieve ==
    /\ call.op = "none"
    /\ \E a \in RetrieveArgs(Len(symbols)) :
        /\ PlainArgs(a) \/ FilterArgs(a)
        /\ call' = [op |-> "retrieve", args |-> a]
        /\ res' = retrieve(a).result
        /\ locals' = retrieve(a).locals
    /\ prev' = [same |-> FALSE]
    /\ UNCHANGED <<symbols, embeddings, argsortTies, rvars, files>>

\* The caller repeats the call it has just made.
RetrieveAgain ==
    /\ call.op = "retrieve"
    /\ ~prev.same
    /\ res' = retrieve(call.args).result
    /\ locals' = retrieve(call.args).locals
    /\ prev' = [same |-> TRUE, result |-> res]
    /\ UNCHANGED <<call, symbols, embeddings, argsortTies, rvars, files>>

\* retrieve_batch over one problem, with or without a precomputed vector.
RetrieveBatch ==
    /\ call.op = "none"
    /\ Len(symbols) = NumSymbols \/ Len(symbols) = 0
    /\ \E query \in Bm25Vectors(Len(symbols)), top_k \in 0..(Len(symbols) + 1),
          w \in WeightPairs, embed \in EmbedOutcomes,
          pre \in {None} \cup {Some(<<v>>) : v \in QueryVectors} :
        LET problems == <<[pid |-> 1, query |-> query, embed |-> embed]>>
            ids == IF pre.is_none THEN None ELSE Some(<<1>>)
        IN  /\ pre.is_none \/ embed.kind = "error"
            /\ call' = [op |-> "retrieve_batch", problems |-> problems,
                        top_k |-> top_k, bm25_weight |-> w[1], dense_weight |-> w[2],
                        concept_embeddings |-> pre, concept_problem_ids |-> ids]
            /\ res' = retrieve_batch(problems, top_k, w[1], w[2], pre, ids)
    /\ locals' = NoLocals
    /\ prev' = [same |-> FALSE]
    /\ UNCHANGED <<symbols, embeddings, argsortTies, rvars, files>>

(***************************************************************************)
(* retrieve_batch over several problems, some of which have a precomputed  *)
(* vector.  The embedding service can also answer a body that holds no     *)
(* vector: _embed then returns the empty array, and the matrix product of  *)
(* the next lines raises ValueError out of retrieve.                       *)
(***************************************************************************)
BatchIds == {1, 2}

\* The iteration orders of concepts_by_problem over some of the ids.
BatchOrders == {<< >>, <<1>>, <<2>>, <<1, 2>>, <<2, 1>>}

BatchBm25Vectors(n) ==
    {[i \in 1..n |-> 0], [i \in 1..n |-> IF i = 1 THEN 2 ELSE 0]}

BatchEmbedOutcomes ==
    {[kind |-> "vector", value |-> <<1, 2>>],
     [kind |-> "error", value |-> <<0, 0>>],
     [kind |-> "vector", value |-> << >>]}

\* The concept_problem_ids and concept_embeddings a caller passes: either
\* may be None, and their lengths may differ.  Id 3 is no problem of the batch.
PrecomputedIds == {None} \cup {Some(ids) : ids \in {<< >>, <<1>>, <<2>>, <<3>>, <<1, 2>>, <<2, 1>>}}
PrecomputedRows ==
    {None} \cup {Some(rows) : rows \in {<< >>, <<<<1, 0>>>>, <<<<-2, -1>>>>,
                                         <<<<1, 0>>, <<-2, -1>>>>}}

\* embeddings_norm @ query_norm raises ValueError when the query vector has
\* not the dimension of the stored vectors.
MatmulRaises(query_embedding) ==
    Len(symbols) > 0 /\ Len(query_embedding) # Len(embeddings[1])

\* retrieve calls _embed unless the catalogue is empty.
RetrieveCallsEmbed == Len(symbols) > 0

\* retrieve raises when _embed returned a vector the product cannot take.
RetrieveRaises(a) == a.embed.kind = "vector" /\ MatmulRaises(a.embed.value)

\* The positions of problems, in order, that satisfy the set keep.
RECURSIVE PidsAt(_, _, _, _)
PidsAt(problems, i, last, keep) ==
    IF i > last THEN << >>
    ELSE IF i \in keep THEN <<problems[i].pid>> \o PidsAt(problems, i + 1, last, keep)
         ELSE PidsAt(problems, i + 1, last, keep)

\* One run of retrieve_batch: whether it raised, the map it returned, the
\* problem ids for which _embed was called and those served from the
\* lookup, in the order of the loop.
retrieve_batch_run(problems, top_k, bm25_weight, dense_weight, concept_embeddings, concept_problem_ids) ==
    LET embedding_lookup == EmbeddingLookup(concept_embeddings, concept_problem_ids)
        m == Len(problems)
        looked_up == {i \in 1..m : problems[i].pid \in DOMAIN embedding_lookup}
        raising == {i \in 1..m :
                        IF i \in looked_up
                        THEN MatmulRaises(embedding_lookup[problems[i].pid])
                        ELSE /\ RetrieveCallsEmbed
                             /\ RetrieveRaises(BatchArgs(problems[i], top_k,
                                                         bm25_weight, dense_weight))}
        last == IF raising = {} THEN m
                ELSE CHOOSE i \in raising : \A j \in raising : i <= j
    IN  [raised |-> raising # {},
         results |-> IF raising # {} THEN << >>
                     ELSE retrieve_batch(problems, top_k, bm25_weight, dense_weight,
                                         concept_embeddings, concept_problem_ids),
         embed_calls |-> PidsAt(problems, 1, last,
                                {i \in 1..m : i \notin looked_up /\ RetrieveCallsEmbed}),
         supplied |-> PidsAt(problems, 1, last, looked_up)]

RetrieveBatchMixed ==
    /\ call.op = "none"
    /\ \E order \in BatchOrders, ids \in PrecomputedIds, rows \in PrecomputedRows :
       \E queries \in [1..Len(order) -> BatchBm25Vectors(Len(symbols))],
          embeds \in [1..Len(order) -> BatchEmbedOutcomes] :
        LET problems == [i \in 1..Len(order) |->
                            [pid |-> order[i], query |-> queries[i], embed |-> embeds[i]]]
            run == retrieve_batch_run(problems, NumSymbols, 1, 1, rows, ids)
        IN  /\ call' = [op |-> "retrieve_batch_mixed", problems |-> problems,
                        top_k |-> NumSymbols, bm25_weight |-> 1, dense_weight |-> 1,
                        concept_embeddings |-> rows, concept_problem_ids |-> ids]
            /\ res' = run.results
            /\ locals' = [ran |-> FALSE, raised |-> run.raised,
                          embed_calls |-> run.embed_calls, supplied |-> run.supplied]
    /\ prev' = [same |-> FALSE]
    /\ UNCHANGED <<symbols, embeddings, argsortTies, rvars, files>>

Return ==
    /\ call.op # "none"
    /\ call' = [op |-> "none"]
    /\ res' = [op |-> "none"]
    /\ locals' = NoLocals
    /\ prev' = [same |-> FALSE]
    /\ UNCHANGED <<symbols, embeddings, argsortTies, rvars, files>>


(***************************************************************************)
(* The reranking filter as a state machine.  A reranker keeps no state      *)
(* between calls: a call is made from the idle state, its result is held   *)
(* until the caller has taken it, and the next call starts from idle.      *)
(***************************************************************************)
RIdle ==
    /\ rcall = [op |-> "none"]
    /\ rres = [op |-> "none"]

ApplyThresholdRule ==
    /\ rcall.op = "none"
    /\ \E n \in 0..MaxCand, threshold \in Thresholds, min_keep \in MinKeeps :
      \E scores \in [1..n -> Scores] :
        /\ rcall' = [op |-> "apply_threshold_rule", candidates |-> Candidates(n),
                     scores |-> scores, threshold |-> threshold,
                     min_keep |-> min_keep]
        /\ rres' = apply_threshold_rule(Candidates(n), scores, threshold, min_keep)
        /\ UNCHANGED hvars

Rerank ==
    /\ rcall.op = "none"
    /\ \E backend \in Backends, n \in 0..MaxCand,
       threshold \in Thresholds, min_keep \in MinKeeps :
      \E outcomes \in [1..n -> Outcomes] :
        /\ rcall' = [op |-> "rerank", backend |-> backend,
                     candidates |-> Candidates(n), outcomes |-> outcomes,
                     threshold |-> threshold, min_keep |-> min_keep]
        /\ rres' = RerankOf(backend, Candidates(n), outcomes, threshold, min_keep)
        /\ UNCHANGED hvars

RerankReturn ==
    /\ rcall.op # "none"
    /\ rcall' = [op |-> "none"]
    /\ rres' = [op |-> "none"]
    /\ UNCHANGED hvars

(***************************************************************************)
(* rerank_batch.  problems is the dict of problems in its iteration order  *)
(* (the keys of a dict are distinct: problem ids are 1..Len(problems));    *)
(* each problem carries its candidate list (empty when                     *)
(* candidates_by_problem has no entry for it) and what the scoring         *)
(* service does for each candidate.                                        *)
(***************************************************************************)
MaxProblems == 2                  \* most problems in one batch

\* The candidate lists and scoring outcomes of the problems of a batch.
BatchCandCounts == 0..2
BatchOutcomes ==
    {[kind |-> "score", value |-> 0], [kind |-> "score", value |-> MaxScore],
     [kind |-> "neterr", value |-> 0], [kind |-> "malformed", value |-> 0]}
BatchThresholds == {2}
BatchMinKeeps == {0, 1}

BatchProblems ==
    UNION {[candidates : {Candidates(n)}, outcomes : [1..n -> BatchOutcomes]] :
                n \in BatchCandCounts}

\* results[problem_id] = self.rerank(problem_id, problem_text, candidates)
rerank_batch(backend, problems, threshold, min_keep) ==
    [problem_id \in 1..Len(problems) |->
        RerankOf(backend, problems[problem_id].candidates,
                 problems[problem_id].outcomes, threshold, min_keep)]

RerankBatch ==
    /\ rcall.op = "none"
    /\ \E backend \in Backends, m \in 0..MaxProblems,
          threshold \in BatchThresholds, min_keep \in BatchMinKeeps :
      \E problems \in [1..m -> BatchProblems] :
        /\ rcall' = [op |-> "rerank_batch", backend |-> backend,
                     problems |-> problems, threshold |-> threshold,
                     min_keep |-> min_keep]
        /\ rres' = rerank_batch(backend, problems, threshold, min_keep)
        /\ UNCHANGED hvars

RNext == ApplyThresholdRule \/ Rerank \/ RerankBatch \/ RerankReturn

\* The reranker of a process that built no retriever.
RInit == RIdle /\ HIdle(0, "stable") /\ files = NoFiles

SpecRerank == RInit /\ [][RNext]_vars

(***************************************************************************)
(* Properties of the reranking filter.                                     *)
(***************************************************************************)
\* C1: apply_threshold_rule returns exactly the first keep_count (candidate,
\* score) pairs of the score-descending list, with keep_count =
\* min(max(min_keep, number of scores >= threshold), number of candidates);
\* on the empty list the result is empty.
ThresholdRuleKeepsFirstKeepCount ==
    rcall.op = "apply_threshold_rule" =>
        LET cands == rcall.candidates
            sc == rcall.scores
            n == Len(cands)
            above == Cardinality({i \in 1..n : sc[i] >= rcall.threshold})
            keep_count == Min(Max(rcall.min_keep, above), n)
            kept == {i \in 1..n : \E k \in 1..Len(rres) : rres[k] = <<cands[i], sc[i]>>}
        IN  /\ Len(rres) = keep_count
            /\ \A k \in 1..Len(rres) : \E i \in 1..n : rres[k] = <<cands[i], sc[i]>>
            /\ \A k, l \in 1..Len(rres) :
                    k < l => rres[k][2] >= rres[l][2] /\ rres[k] # rres[l]
            /\ \A i \in (1..n) \ kept : \A k \in 1..Len(rres) : sc[i] <= rres[k][2]
            /\ (n = 0 => rres = << >>)

\* A call where the threshold decides: three candidates, two of them at or
\* above the threshold, min_keep = 1, two pairs returned.
ThresholdRuleWitness ==
    /\ rcall.op = "apply_threshold_rule"
    /\ Len(rcall.candidates) = 3
    /\ rcall.min_keep = 1
    /\ Cardinality({i \in 1..3 : rcall.scores[i] >= rcall.threshold}) = 2
    /\ Len(rres) = 2

\* C2: for every backend, a rerank that succeeds returns at least
\* min(min_keep, number of candidates) surviving symbols, whatever the scores.
RerankKeepsAtLeastMinKeep ==
    (rcall.op = "rerank" /\ rres.success) =>
        Len(rres.reranked_symbols) >= Min(rcall.min_keep, Len(rcall.candidates))

\* C3: in a successful rerank every candidate whose recorded score is >=
\* threshold survives, however many there are, and the surviving list is in
\* descending order of the attached score.
RerankKeepsAllAboveThreshold ==
    (rcall.op = "rerank" /\ rres.success) =>
        LET cands == rcall.candidates
            out == rres.reranked_symbols
        IN  /\ \A i \in 1..Len(cands) :
                    rres.all_scores[SymbolIdOf(cands[i])] >= rcall.threshold
                        => \E k \in 1..Len(out) : out[k].symbol = cands[i]
            /\ \A k, l \in 1..Len(out) :
                    k < l => out[k].reranker_score >= out[l].reranker_score


(***************************************************************************)
(* The retriever's specification.                                          *)
(***************************************************************************)
HInit ==
    /\ RIdle
    /\ \E n \in 0..NumSymbols, ties \in TiePolicies : HIdle(n, ties)
    /\ files = NoFiles

HNext == Retrieve \/ RetrieveAgain \/ RetrieveBatch \/ RetrieveBatchMixed \/ Return

SpecRetrieve == HInit /\ [][HNext]_vars

(***************************************************************************)
(* Properties of retrieve and retrieve_batch.                              *)
(***************************************************************************)
Ran == call.op = "retrieve" /\ locals.ran

\* order lists every index 1..n once, in descending order of scores.
DescendingPermutation(order, scores) ==
    /\ Len(order) = Len(scores)
    /\ {order[p] : p \in 1..Len(order)} = 1..Len(scores)
    /\ \A p, q \in 1..Len(order) : p < q => scores[order[p]] >= scores[order[q]]

\* The position of the catalogue index idx in the result (0 when absent).
PlaceOf(idx) ==
    IF \E k \in 1..Len(res.symbol_ids) : res.symbol_ids[k] = symbols[idx].id
    THEN CHOOSE k \in 1..Len(res.symbol_ids) : res.symbol_ids[k] = symbols[idx].id
    ELSE 0

NoFilter(a) == ~a.require_sympy /\ a.min_rrf_score = 0

\* C4: the fused score of every symbol i is bm25_weight / (rrf_k + bm25_rank[i]
\* + 1) + dense_weight / (rrf_k + dense_rank[i] + 1), the ranks being the
\* 0-based positions in the descending sorts of the BM25 and of the cosine
\* score vector, each a permutation of 0..n-1, with one rrf_k for both terms.
FusedScoreIsWeightedReciprocalRank ==
    Ran =>
        LET a == call.args
            n == Len(symbols)
            cosine == [i \in 1..n |-> Cosine(embeddings[i], a.embed.value)]
            bm25_rank(i) == CHOOSE r \in 0..(n - 1) : locals.bm25_ranks[r + 1] = i
            dense_rank(i) == CHOOSE r \in 0..(n - 1) : locals.dense_ranks[r + 1] = i
        IN  /\ locals.bm25_scores = a.query
            /\ locals.dense_scores = cosine
            /\ DescendingPermutation(locals.bm25_ranks, a.query)
            /\ DescendingPermutation(locals.dense_ranks, cosine)
            /\ \A i \in 1..n :
                /\ RrfDen(n) % (RrfK + bm25_rank(i) + 1) = 0
                /\ RrfDen(n) % (RrfK + dense_rank(i) + 1) = 0
                /\ locals.rrf_scores[i] =
                        a.bm25_weight * (RrfDen(n) \div (RrfK + bm25_rank(i) + 1))
                      + a.dense_weight * (RrfDen(n) \div (RrfK + dense_rank(i) + 1))
                /\ PlaceOf(i) # 0 => res.scores[symbols[i].id] = locals.rrf_scores[i]

\* Three symbols, unequal weights, the two rankings differ, all returned.
FusedScoreWitness ==
    /\ Ran
    /\ Len(symbols) = 3
    /\ call.args.bm25_weight = 1 /\ call.args.dense_weight = 2
    /\ locals.bm25_ranks # locals.dense_ranks
    /\ Len(res.symbol_ids) = 3

\* A is before B in both rankings.
OutranksOnBoth(A, B) ==
    /\ RankOf(locals.bm25_ranks, A) < RankOf(locals.bm25_ranks, B)
    /\ RankOf(locals.dense_ranks, A) < RankOf(locals.dense_ranks, B)

PlacedAfter(A, B) == PlaceOf(A) # 0 /\ PlaceOf(B) # 0 /\ PlaceOf(A) > PlaceOf(B)

TiesInCatalogueOrder ==
    Ran => \A i, j \in 1..Len(symbols) :
        i < j =>
            /\ locals.bm25_scores[i] = locals.bm25_scores[j]
                => RankOf(locals.bm25_ranks, i) < RankOf(locals.bm25_ranks, j)
            /\ locals.dense_scores[i] = locals.dense_scores[j]
                => RankOf(locals.dense_ranks, i) < RankOf(locals.dense_ranks, j)
            /\ locals.rrf_scores[i] = locals.rrf_scores[j] => ~PlacedAfter(i, j)

TopKHighestFused ==
    call.op = "retrieve" =>
        LET a == call.args
            n == Len(symbols)
            ids == res.symbol_ids
        IN  /\ Len(ids) <= a.top_k
            /\ Len(res.symbols) = Len(ids)
            /\ (locals.ran /\ NoFilter(a)) =>
                /\ Len(ids) = Min(a.top_k, n)
                /\ \A k, l \in 1..Len(ids) :
                        k < l => /\ ids[k] # ids[l]
                                 /\ res.scores[ids[k]] >= res.scores[ids[l]]
                /\ \A i \in 1..n : PlaceOf(i) = 0 =>
                        \A k \in 1..Len(ids) : locals.rrf_scores[i] <= res.scores[ids[k]]

\* top_k cuts a catalogue of three down to two, the symbol left out scoring
\* strictly less than the two returned.
TopKWitness ==
    /\ Ran
    /\ NoFilter(call.args)
    /\ Len(symbols) = 3
    /\ call.args.top_k = 2
    /\ Len(res.symbol_ids) = 2
    /\ \E i \in 1..3 : PlaceOf(i) = 0 /\
            \A k \in 1..2 : locals.rrf_scores[i] < res.scores[res.symbol_ids[k]]

BatchAgreesWithSingle ==
    (call.op = "retrieve_batch" /\ ~call.concept_embeddings.is_none) =>
        LET problem == call.problems[1]
            v == call.concept_embeddings.value[1]
            single == [BatchArgs(problem, call.top_k, call.bm25_weight,
                                 call.dense_weight)
                            EXCEPT !.embed = [kind |-> "vector", value |-> v]]
        IN  /\ DOMAIN res = {problem.pid}
            /\ res[problem.pid] = retrieve(single).result

\* A batch call served from a precomputed vector of norm other than 1 that
\* returns three symbols.
BatchWitness ==
    /\ call.op = "retrieve_batch"
    /\ ~call.concept_embeddings.is_none
    /\ NormSq(call.concept_embeddings.value[1]) > 1
    /\ Len(res[1].symbol_ids) = 3

(***************************************************************************)
(* Failure of the query embedding in retrieve.                             *)
(***************************************************************************)
\* What a caller can tell from the object retrieve hands back: a
\* HybridRetrievalResult has no error field, so a raised exception is the
\* only error a retrieve call can signal.
IsRankingResult(r) == DOMAIN r = DOMAIN EmptyResult(<< >>)

\* The embedding request of the call was made and raised.
EmbedFailed == call.op = "retrieve" /\ Len(symbols) > 0 /\ call.args.embed.kind = "error"

\* C11: if the embedding call for the query fails, the retrieve call fails
\* with an error; it never returns a ranking result, neither an empty one
\* nor one built from the lexical signal alone.
EmbedFailureFailsRetrieve ==
    EmbedFailed => ~IsRankingResult(res)

(***************************************************************************)
(* Failures of the scoring service during rerank.                          *)
(***************************************************************************)
\* The backends that make one scoring request per candidate.
PerCandidateBackends == {"vllm", "ollama"}

\* The candidates of the call whose scoring request failed.
FailedCandidates ==
    {i \in 1..Len(rcall.candidates) : ~Answered(rcall.outcomes[i])}

\* C12: when the scoring call for a candidate fails (connection error,
\* timeout, non-2xx status, unparseable payload), the candidate's score
\* becomes the sentinel 0, the remaining candidates are still scored, and
\* the rerank completes with success = true.
ScoringFailureDegradesToSentinel ==
    (rcall.op = "rerank" /\ rcall.backend \in PerCandidateBackends
                         /\ FailedCandidates # {}) =>
        /\ rres.success
        /\ \A i \in 1..Len(rcall.candidates) :
            LET id == SymbolIdOf(rcall.candidates[i])
            IN  /\ id \in DOMAIN rres.all_scores
                /\ rres.all_scores[id] =
                        IF i \in FailedCandidates THEN 0 ELSE rcall.outcomes[i].value

\* No scoring request of the problem was answered.
NothingScored(problem) ==
    /\ Len(problem.candidates) > 0
    /\ \A i \in 1..Len(problem.candidates) : ~Answered(problem.outcomes[i])

\* C13: rerank_batch never aborts: it returns exactly one result per problem
\* id of the input, a problem whose scoring could not be done carries
\* success = false with a populated error field, and the problems after a
\* failed one are still processed.
BatchNeverAborts ==
    rcall.op = "rerank_batch" =>
        /\ DOMAIN rres = 1..Len(rcall.problems)
        /\ \A pid \in 1..Len(rcall.problems) :
            LET problem == rcall.problems[pid]
            IN  /\ rres[pid].original_count = Len(problem.candidates)
                /\ rres[pid] = RerankOf(rcall.backend, problem.candidates,
                                        problem.outcomes, rcall.threshold,
                                        rcall.min_keep)
                /\ NothingScored(problem) =>
                        ~rres[pid].success /\ rres[pid].error # "None"

(***************************************************************************)
(* The diagnostic score map.                                               *)
(***************************************************************************)
\* C14: after a successful rerank over candidates with distinct ids,
\* all_scores has one entry per candidate (its size is original_count),
\* the candidates filtered out and the candidates whose scoring failed
\* (recorded with the sentinel 0) included.
AllScoresCoversEveryCandidate ==
    (rcall.op = "rerank" /\ rres.success) =>
        LET cands == rcall.candidates
        IN  /\ rres.original_count = Len(cands)
            /\ Cardinality(DOMAIN rres.all_scores) = rres.original_count
            /\ \A i \in 1..Len(cands) :
                /\ SymbolIdOf(cands[i]) \in DOMAIN rres.all_scores
                /\ rres.all_scores[SymbolIdOf(cands[i])] =
                        IF Answered(rcall.outcomes[i]) THEN rcall.outcomes[i].value
                        ELSE 0

\* A successful rerank of three candidates: one survives, one is filtered
\* out by the threshold, and the scoring of one failed.
AllScoresWitness ==
    /\ rcall.op = "rerank"
    /\ rres.success
    /\ Len(rcall.candidates) = 3
    /\ Len(rres.reranked_symbols) = 1
    /\ FailedCandidates # {}
    /\ \E i \in 1..3 : /\ Answered(rcall.outcomes[i])
                       /\ rcall.outcomes[i].value > 0
                       /\ rcall.outcomes[i].value < rcall.threshold
    /\ Cardinality(DOMAIN rres.all_scores) = 3

(***************************************************************************)
(* The vector store: HybridRetriever.__init__ loads the symbol vectors     *)
(* from the cache file or computes them with one _embed call per symbol.   *)
(***************************************************************************)
\* np.zeros_like(embeddings[0])
ZeroVector == <<0, 0>>

\* A row of a cache file written for an earlier catalogue.
StaleVector == <<2, 2>>

\* The cache files construction can find on disk.
InitialCaches ==
    {NoFile, Unreadable}
        \cup {Table([i \in 1..k |-> StaleVector]) : k \in 0..(NumSymbols + 1)}

\* What the embedding service answers for the embedding text of a symbol: it
\* depends on the symbol, not on its place in the catalogue.
EmbedText(symbol) ==
    SymbolVector(CHOOSE k \in 1..(NumSymbols + 1) : Symbol(k) = symbol)

Reversed(c) == [i \in 1..Len(c) |-> c[Len(c) + 1 - i]]

\* The catalogue with its last symbol replaced by one it did not hold.
ReplacedLast(c) == [c EXCEPT ![Len(c)] = Symbol(NumSymbols + 1)]

\* The knowledge bases a construction can find at kb_path: the first n
\* symbols, the same in reverse order, and the same with the last replaced.
Catalogues ==
    LET base == {Catalogue(n) : n \in 0..NumSymbols}
    IN  base \cup {Reversed(c) : c \in base}
             \cup {ReplacedLast(c) : c \in base \ {<< >>}}

\* A construction that never reads the cache file.
load_or_compute_embeddings_no_cache(n, cache, embed_ok, save_ok) ==
    IF n = 0
    THEN [raised |-> FALSE, embeddings |-> << >>, cache |-> cache,
          embed_calls |-> 0, from_cache |-> FALSE]
    ELSE [raised |-> ~embed_ok[1],
          embeddings |-> IF ~embed_ok[1] THEN << >>
                         ELSE [i \in 1..n |-> IF embed_ok[i] THEN EmbedText(symbols[i])
                                               ELSE ZeroVector],
          cache |-> IF embed_ok[1] /\ save_ok
                    THEN Table([i \in 1..n |-> IF embed_ok[i] THEN EmbedText(symbols[i])
                                               ELSE ZeroVector])
                    ELSE cache,
          embed_calls |-> IF embed_ok[1] THEN n ELSE 1, from_cache |-> FALSE]

\* _compute_all_embeddings over the n symbols of the catalogue; embed_ok[i]
\* tells whether the _embed call for the i-th symbol answers.  A failure on the first symbol
\* raises; a later one appends a zero row.
compute_all_embeddings(n, embed_ok) ==
    IF n > 0 /\ ~embed_ok[1]
    THEN [raised |-> TRUE, embeddings |-> << >>, embed_calls |-> 1]
    ELSE [raised |-> FALSE,
          embeddings |-> [i \in 1..n |->
                            IF embed_ok[i] THEN EmbedText(symbols[i]) ELSE ZeroVector],
          embed_calls |-> n]

\* The mutant of load_or_compute_embeddings that accepts a readable cache
\* whatever its row count.
load_or_compute_embeddings_any_rows(n, cache, embed_ok, save_ok) ==
    IF n = 0
    THEN [raised |-> FALSE, embeddings |-> << >>, cache |-> cache,
          embed_calls |-> 0, from_cache |-> FALSE]
    ELSE IF cache.kind = "table"
    THEN [raised |-> FALSE, embeddings |-> cache.rows, cache |-> cache,
          embed_calls |-> 0, from_cache |-> TRUE]
    ELSE LET c == compute_all_embeddings(n, embed_ok)
         IN  [raised |-> c.raised, embeddings |-> c.embeddings,
              cache |-> IF ~c.raised /\ save_ok THEN Table(c.embeddings) ELSE cache,
              embed_calls |-> c.embed_calls, from_cache |-> FALSE]

\* _load_or_compute_embeddings: cache is the file found at embeddings_cache,
\* save_ok tells whether np.save succeeds.
load_or_compute_embeddings(n, cache, embed_ok, save_ok) ==
    IF n = 0
    THEN [raised |-> FALSE, embeddings |-> << >>, cache |-> cache,
          embed_calls |-> 0, from_cache |-> FALSE]
    ELSE IF cache.kind = "table" /\ Len(cache.rows) = n
    THEN [raised |-> FALSE, embeddings |-> cache.rows, cache |-> cache,
          embed_calls |-> 0, from_cache |-> TRUE]
    ELSE LET c == compute_all_embeddings(n, embed_ok)
         IN  [raised |-> c.raised, embeddings |-> c.embeddings,
              cache |-> IF ~c.raised /\ save_ok THEN Table(c.embeddings) ELSE cache,
              embed_calls |-> c.embed_calls, from_cache |-> FALSE]

\* A HybridRetriever is constructed over the loaded catalogue.
Construct ==
    /\ call.op = "none"
    /\ \E embed_ok \in [1..Len(symbols) -> BOOLEAN], save_ok \in BOOLEAN :
        LET r == load_or_compute_embeddings(Len(symbols), files.embeddings_cache,
                                            embed_ok, save_ok)
        IN  /\ call' = [op |-> "construct", cache_before |-> files.embeddings_cache,
                        embed_ok |-> embed_ok, save_ok |-> save_ok]
            /\ res' = [raised |-> r.raised, embed_calls |-> r.embed_calls,
                       from_cache |-> r.from_cache]
            /\ embeddings' = r.embeddings
            /\ files' = [files EXCEPT !.embeddings_cache = r.cache]
    /\ locals' = NoLocals
    /\ prev' = [same |-> FALSE]
    /\ UNCHANGED <<symbols, argsortTies, rvars>>

\* A second HybridRetriever is constructed over the same knowledge base and
\* the same cache file, as a second run of the program does.
ConstructAgain ==
    /\ call.op = "construct"
    /\ ~prev.same
    /\ \E embed_ok \in [1..Len(symbols) -> BOOLEAN], save_ok \in BOOLEAN :
        LET r == load_or_compute_embeddings(Len(symbols), files.embeddings_cache,
                                            embed_ok, save_ok)
        IN  /\ call' = [op |-> "construct", cache_before |-> files.embeddings_cache,
                        embed_ok |-> embed_ok, save_ok |-> save_ok]
            /\ res' = [raised |-> r.raised, embed_calls |-> r.embed_calls,
                       from_cache |-> r.from_cache]
            /\ embeddings' = r.embeddings
            /\ files' = [files EXCEPT !.embeddings_cache = r.cache]
    /\ locals' = NoLocals
    /\ prev' = [same |-> TRUE, call |-> call, res |-> res]
    /\ UNCHANGED <<symbols, argsortTies, rvars>>

\* The knowledge base at kb_path is edited between two runs of the program;
\* the retriever of the earlier run is gone, the cache file stays.
CatalogueChanges ==
    /\ call.op = "none"
    /\ \E c \in Catalogues \ {symbols} : symbols' = c
    /\ embeddings' = << >>
    /\ UNCHANGED <<argsortTies, call, res, locals, prev, rvars, files>>

\* The catalogue is loaded, no retriever is constructed yet.
SInit ==
    /\ RIdle
    /\ \E n \in 0..NumSymbols : symbols = Catalogue(n)
    /\ embeddings = << >>
    /\ argsortTies = "stable"
    /\ call = [op |-> "none"]
    /\ res = [op |-> "none"]
    /\ locals = NoLocals
    /\ prev = [same |-> FALSE]
    /\ \E cache \in InitialCaches :
            files = [embeddings_cache |-> cache, concepts_cache |-> NoFile]

SNext == Construct \/ ConstructAgain \/ CatalogueChanges \/ Return

SpecStore == SInit /\ [][SNext]_vars

\* The cache file found by the construction is a table whose row count
\* differs from the symbol count.
CacheMismatch ==
    /\ call.op = "construct"
    /\ call.cache_before.kind = "table"
    /\ Len(call.cache_before.rows) # Len(symbols)

NoStaleRow == \A i \in 1..Len(embeddings) : embeddings[i] # StaleVector

MaxQueries == 3                   \* most problems in concepts_by_problem

QueryIds == 1..MaxQueries

\* The iteration orders a dict over some of the ids can have.
KeyOrders ==
    UNION {{order \in [1..k -> QueryIds] :
                \A i, j \in 1..k : i # j => order[i] # order[j]} :
           k \in 0..MaxQueries}

KeysOf(order) == {order[i] : i \in 1..Len(order)}

\* What the embedding service answers for the concepts of a problem.
ConceptVector(problem_id) == <<problem_id, 1>>

\* The cache files of query vectors a run can find on disk.
InitialConceptCaches ==
    {NoFile, Unreadable}
        \cup {Table([i \in 1..k |-> StaleVector]) : k \in 0..MaxQueries}

\* sorted(concepts_by_problem.keys())
RECURSIVE InsertAsc(_, _)
InsertAsc(sorted, x) ==
    IF sorted = << >> THEN <<x>>
    ELSE IF Head(sorted) <= x
         THEN <<Head(sorted)>> \o InsertAsc(Tail(sorted), x)
         ELSE <<x>> \o sorted

RECURSIVE SortAsc(_)
SortAsc(s) ==
    IF s = << >> THEN << >>
    ELSE InsertAsc(SortAsc(SubSeq(s, 1, Len(s) - 1)), s[Len(s)])

\* The mutant of SortedIds that keeps the iteration order of the dict.
SortedIdsInIterationOrder(concepts_by_problem) == concepts_by_problem

SortedIds(concepts_by_problem) == SortAsc(concepts_by_problem)

NoValue(kind) == [kind |-> kind, embeddings |-> << >>, problem_ids |-> << >>]

\* A computation that saves the rows it has when the first embed call
\* fails, before it raises.
compute_concept_embeddings_saving_early(concepts_by_problem, embed_ok, cache, write) ==
    LET problem_ids == SortedIds(concepts_by_problem)
        total == Len(problem_ids)
    IN  IF total > 0 /\ ~embed_ok[problem_ids[1]]
        THEN [result |-> NoValue("raised"),
              cache |-> IF write = "ok" THEN Table(<< >>) ELSE cache,
              embed_calls |-> <<problem_ids[1]>>, progress |-> << >>,
              saves |-> IF write = "no_path" THEN 0 ELSE 1]
        ELSE LET embeddings_array ==
                    [i \in 1..total |->
                        IF embed_ok[problem_ids[i]] THEN ConceptVector(problem_ids[i])
                        ELSE ZeroVector]
             IN  [result |-> [kind |-> "value", embeddings |-> embeddings_array,
                              problem_ids |-> problem_ids],
                  cache |-> IF write = "ok" THEN Table(embeddings_array) ELSE cache,
                  embed_calls |-> problem_ids,
                  progress |-> SelectSeq([i \in 1..total |-> <<i, total>>],
                                         LAMBDA c : embed_ok[problem_ids[c[1]]]),
                  saves |-> IF write = "no_path" THEN 0 ELSE 1]

\* A load that accepts a readable table whatever its row count.
load_concept_embeddings_any_rows(cache, concepts_by_problem) ==
    LET problem_ids == SortedIds(concepts_by_problem)
    IN  IF cache.kind # "table" THEN NoValue("none")
        ELSE [kind |-> "value", embeddings |-> cache.rows, problem_ids |-> problem_ids]

\* compute_concept_embeddings: embed_ok[id] tells whether the _embed call
\* for the problem answers; write is "ok", "failed" or "no_path"
\* (cache_path is None).  A failure on the first problem raises; a later
\* one appends a zero row.
compute_concept_embeddings(concepts_by_problem, embed_ok, cache, write) ==
    LET problem_ids == SortedIds(concepts_by_problem)
        total == Len(problem_ids)
    IN  IF total > 0 /\ ~embed_ok[problem_ids[1]]
        THEN [result |-> NoValue("raised"), cache |-> cache,
              embed_calls |-> <<problem_ids[1]>>, progress |-> << >>, saves |-> 0]
        ELSE LET embeddings_array ==
                    [i \in 1..total |->
                        IF embed_ok[problem_ids[i]] THEN ConceptVector(problem_ids[i])
                        ELSE ZeroVector]
             IN  [result |-> [kind |-> "value", embeddings |-> embeddings_array,
                              problem_ids |-> problem_ids],
                  cache |-> IF write = "ok" THEN Table(embeddings_array) ELSE cache,
                  embed_calls |-> problem_ids,
                  progress |-> SelectSeq([i \in 1..total |-> <<i, total>>],
                                         LAMBDA c : embed_ok[problem_ids[c[1]]]),
                  saves |-> IF write = "no_path" THEN 0 ELSE 1]

\* load_concept_embeddings: None when the file is absent, unreadable or of
\* another row count; the rows of the file otherwise.
load_concept_embeddings(cache, concepts_by_problem) ==
    LET problem_ids == SortedIds(concepts_by_problem)
    IN  IF cache.kind # "table" THEN NoValue("none")
        ELSE IF Len(cache.rows) # Len(problem_ids) THEN NoValue("none")
        ELSE [kind |-> "value", embeddings |-> cache.rows, problem_ids |-> problem_ids]

Writes == {"ok", "failed", "no_path"}

ComputeCall(order, embed_ok, write) ==
    [op |-> "compute_concept_embeddings", concepts_by_problem |-> order,
     embed_ok |-> embed_ok, write |-> write, cache_before |-> files.concepts_cache]

LoadCall(order) ==
    [op |-> "load_concept_embeddings", concepts_by_problem |-> order,
     embed_ok |-> << >>, write |-> "no_path", cache_before |-> files.concepts_cache]

ComputeConceptEmbeddings ==
    /\ call.op = "none"
    /\ \E order \in KeyOrders, write \in Writes :
       \E embed_ok \in [KeysOf(order) -> BOOLEAN] :
        LET r == compute_concept_embeddings(order, embed_ok, files.concepts_cache, write)
        IN  /\ call' = ComputeCall(order, embed_ok, write)
            /\ res' = r.result
            /\ files' = [files EXCEPT !.concepts_cache = r.cache]
            /\ locals' = [ran |-> FALSE, embed_calls |-> r.embed_calls,
                          progress |-> r.progress, saves |-> r.saves]
    /\ prev' = [same |-> FALSE]
    /\ UNCHANGED <<symbols, embeddings, argsortTies, rvars>>

\* The pipeline step that loads the query vectors from the cache and
\* computes them, with the cache path and a progress callback, when the
\* load returns None.
LoadOrComputeConceptEmbeddings ==
    /\ call.op = "none"
    /\ \E order \in KeyOrders, write \in {"ok", "failed"} :
       \E embed_ok \in [KeysOf(order) -> BOOLEAN] :
        LET cached == load_concept_embeddings(files.concepts_cache, order)
            r == compute_concept_embeddings(order, embed_ok, files.concepts_cache, write)
        IN  /\ call' = [op |-> "load_or_compute", concepts_by_problem |-> order,
                        embed_ok |-> embed_ok, write |-> write,
                        cache_before |-> files.concepts_cache,
                        cached |-> cached.kind = "value"]
            /\ IF cached.kind = "value"
               THEN /\ res' = cached
                    /\ locals' = [ran |-> FALSE, embed_calls |-> << >>,
                                  progress |-> << >>, saves |-> 0]
                    /\ UNCHANGED files
               ELSE /\ res' = r.result
                    /\ files' = [files EXCEPT !.concepts_cache = r.cache]
                    /\ locals' = [ran |-> FALSE, embed_calls |-> r.embed_calls,
                                  progress |-> r.progress, saves |-> r.saves]
    /\ prev' = [same |-> FALSE]
    /\ UNCHANGED <<symbols, embeddings, argsortTies, rvars>>

LoadConceptEmbeddings ==
    /\ call.op = "none"
    /\ \E order \in KeyOrders :
        /\ call' = LoadCall(order)
        /\ res' = load_concept_embeddings(files.concepts_cache, order)
    /\ prev' = [same |-> FALSE]
    /\ UNCHANGED <<symbols, embeddings, argsortTies, locals, rvars, files>>

\* A second call on the same set of problems, in whatever iteration order
\* the dict has this time, with the embedding service and the disk behaving
\* as in the first call.
IsConceptCall == call.op \in {"compute_concept_embeddings", "load_concept_embeddings"}

FirstCall == [same |-> TRUE, op |-> call.op, write |-> call.write, result |-> res]

ComputeConceptEmbeddingsAgain ==
    /\ IsConceptCall
    /\ ~prev.same
    /\ call.op = "compute_concept_embeddings"
    /\ \E order \in KeyOrders :
        /\ KeysOf(order) = KeysOf(call.concepts_by_problem)
        /\ LET r == compute_concept_embeddings(order, call.embed_ok,
                                               files.concepts_cache, call.write)
           IN  /\ call' = ComputeCall(order, call.embed_ok, call.write)
               /\ res' = r.result
               /\ files' = [files EXCEPT !.concepts_cache = r.cache]
               /\ locals' = [ran |-> FALSE, embed_calls |-> r.embed_calls,
                             progress |-> r.progress, saves |-> r.saves]
    /\ prev' = FirstCall
    /\ UNCHANGED <<symbols, embeddings, argsortTies, rvars>>

LoadConceptEmbeddingsAgain ==
    /\ IsConceptCall
    /\ ~prev.same
    /\ \E order \in KeyOrders :
        /\ KeysOf(order) = KeysOf(call.concepts_by_problem)
        /\ call' = LoadCall(order)
        /\ res' = load_concept_embeddings(files.concepts_cache, order)
    /\ prev' = FirstCall
    /\ UNCHANGED <<symbols, embeddings, argsortTies, locals, rvars, files>>

\* A constructed retriever and whatever cache of query vectors is on disk.
QInit ==
    /\ RIdle
    /\ HIdle(NumSymbols, "stable")
    /\ \E cache \in InitialConceptCaches :
            files = [embeddings_cache |-> NoFile, concepts_cache |-> cache]

QNext ==
    \/ ComputeConceptEmbeddings
    \/ LoadOrComputeConceptEmbeddings
    \/ LoadConceptEmbeddings
    \/ ComputeConceptEmbeddingsAgain
    \/ LoadConceptEmbeddingsAgain

SpecQueryCache == QInit /\ [][QNext]_vars

(***************************************************************************)
(* Properties of the two caches.                                           *)
(***************************************************************************)
\* The call computed vectors and one of its embed requests failed.
ConstructEmbedFailed ==
    /\ call.op = "construct"
    /\ Len(symbols) > 0 /\ ~res.from_cache
    /\ \E i \in 1..Len(symbols) : ~call.embed_ok[i]

ConceptEmbedFailed ==
    /\ call.op = "compute_concept_embeddings"
    /\ \E id \in KeysOf(call.concepts_by_problem) : ~call.embed_ok[id]

\* C16: a failure of the embedding service is propagated as an error and
\* never replaced by a zero vector: after the construction of the vector
\* store or the embedding of a batch of queries, no stored symbol vector and
\* no query vector is an all-zero placeholder for a failed embed call.
EmbedFailureNeverZeroVector ==
    /\ ConstructEmbedFailed => res.raised
    /\ (call.op = "construct" /\ ~res.raised) =>
            \A i \in 1..Len(embeddings) : embeddings[i] # ZeroVector
    /\ ConceptEmbedFailed => res.kind = "raised"
    /\ (call.op = "compute_concept_embeddings" /\ res.kind = "value") =>
            \A i \in 1..Len(res.embeddings) : res.embeddings[i] # ZeroVector

IsAscending(ids) == \A i, j \in 1..Len(ids) : i < j => ids[i] < ids[j]

\* The call returned vectors and ids.
ConceptsReturned == IsConceptCall /\ res.kind = "value"

\* The ids returned are the keys of the input, each once, in ascending
\* order, and a call before it on the same keys returned the same ids.
OrderedIdsSorted ==
    /\ IsAscending(res.problem_ids)
    /\ KeysOf(res.problem_ids) = KeysOf(call.concepts_by_problem)
    /\ Len(res.problem_ids) = Len(call.concepts_by_problem)
    /\ Len(res.embeddings) = Len(res.problem_ids)
    /\ (prev.same /\ prev.result.kind = "value") =>
            prev.result.problem_ids = res.problem_ids

\* C17 as stated: query ids are processed in ascending sorted order whatever
\* the iteration order of the input: ordered_ids is sorted, row i of the
\* returned vectors belongs to the i-th sorted id, and two calls on the same
\* query set (computed or loaded from cache) return the same ordered_ids.
SortedIdsOwnTheirRows ==
    ConceptsReturned =>
        /\ OrderedIdsSorted
        /\ \A i \in 1..Len(res.problem_ids) :
                res.embeddings[i] = ConceptVector(res.problem_ids[i])

\* C17 as amended: ordered_ids is sorted and the same for two calls on the
\* same query set; when the vectors are computed, row i is the answer of
\* the embed call for the i-th sorted id (a zero row when that call failed);
\* when they are loaded, row i is row i of the file, which is checked for
\* its row count only: it is the vector of the i-th sorted id when the file
\* was written by a computation over the same query set.
SortedIdsAlignRows ==
    ConceptsReturned =>
        /\ OrderedIdsSorted
        /\ call.op = "compute_concept_embeddings" =>
            \A i \in 1..Len(res.problem_ids) :
                res.embeddings[i] =
                    IF call.embed_ok[res.problem_ids[i]]
                    THEN ConceptVector(res.problem_ids[i]) ELSE ZeroVector
        /\ call.op = "load_concept_embeddings" =>
            /\ res.embeddings = call.cache_before.rows
            /\ (prev.same /\ prev.op = "compute_concept_embeddings"
                          /\ prev.write = "ok" /\ prev.result.kind = "value") =>
                    res.embeddings = prev.result.embeddings

\* Three problems given in descending order are computed and written, then
\* loaded with the dict in another order: both calls return the ids 1, 2, 3
\* and the same rows.
SortedIdsWitness ==
    /\ ConceptsReturned
    /\ call.op = "load_concept_embeddings"
    /\ call.concepts_by_problem = <<2, 3, 1>>
    /\ prev.same /\ prev.op = "compute_concept_embeddings"
    /\ prev.result.kind = "value"
    /\ res.problem_ids = <<1, 2, 3>>
    /\ res.embeddings = <<ConceptVector(1), ConceptVector(2), ConceptVector(3)>>

(***************************************************************************)
(* Scenarios of retrieve.                                                  *)
(***************************************************************************)
\* X is the only symbol with the highest BM25 score; Y has BM25 score 0 and
\* is the only symbol with the highest dense score.
LexicalAndSemanticTops(X, Y) ==
    /\ X # Y
    /\ \A i \in 1..Len(symbols) :
            i # X => locals.bm25_scores[X] > locals.bm25_scores[i]
    /\ locals.bm25_scores[Y] = 0
    /\ \A i \in 1..Len(symbols) :
            i # Y => locals.dense_scores[Y] > locals.dense_scores[i]

\* C18: in a catalogue of 3 symbols where X is the unique top of the BM25
\* ranking and Y, of BM25 score 0, the unique top of the dense ranking,
\* retrieve with bm25_weight = dense_weight = 0.5, rrf_k = 60 and
\* top_k >= 2 returns both X and Y, whatever the ranks at the other places.
BothSignalsSurface ==
    (Ran /\ Len(symbols) = 3 /\ NoFilter(call.args) /\ call.args.top_k >= 2
         /\ call.args.bm25_weight = 1 /\ call.args.dense_weight = 1) =>
        \A X, Y \in 1..3 :
            LexicalAndSemanticTops(X, Y) => PlaceOf(X) # 0 /\ PlaceOf(Y) # 0

\* top_k = 2; X is last in the dense ranking, Y is last in the BM25 ranking,
\* and the third symbol is second in both: X and Y are the two returned.
BothSignalsWitness ==
    /\ Ran /\ Len(symbols) = 3 /\ NoFilter(call.args)
    /\ call.args.top_k = 2
    /\ call.args.bm25_weight = 1 /\ call.args.dense_weight = 1
    /\ \E X, Y, Z \in 1..3 :
        /\ Z # X /\ Z # Y
        /\ LexicalAndSemanticTops(X, Y)
        /\ RankOf(locals.dense_ranks, X) = 2
        /\ RankOf(locals.bm25_ranks, Y) = 2
        /\ RankOf(locals.bm25_ranks, Z) = 1 /\ RankOf(locals.dense_ranks, Z) = 1
        /\ PlaceOf(X) # 0 /\ PlaceOf(Y) # 0 /\ PlaceOf(Z) = 0

\* The retrieve calls that are valid for the query of the call made: the
\* embedding request answers, top_k is any.
ValidCalls ==
    {[call.args EXCEPT !.embed = [kind |-> "vector", value |-> v], !.top_k = k] :
        v \in QueryVectors, k \in 0..(Len(symbols) + 1)}

\* C19: a zero-entry result is a valid outcome told apart from a failure:
\* rerank on an empty candidate list returns success = true with no error,
\* and no failing retrieve or rerank call produces a result equal to the one
\* a valid call with nothing matched or nothing surviving produces.
ZeroEntryResultIsNotAFailure ==
    /\ (rcall.op = "rerank" /\ rcall.candidates = << >>) =>
            rres.success /\ rres.error = "None"
    /\ (rcall.op = "rerank" /\ ~rres.success) => rres.error # "None"
    /\ EmbedFailed => \A b \in ValidCalls : retrieve(b).result # res

\* The symbols that pass the filters of the call.
PassingFilters ==
    {i \in 1..Len(symbols) :
        /\ ~BelowMinRrf(locals.rrf_scores[i], call.args.min_rrf_score, Len(symbols))
        /\ call.args.require_sympy => symbols[i].sympy_function}

\* C20: the filters are applied during the selection walk, before counting
\* toward top_k: with require_sympy no returned symbol lacks a SymPy
\* mapping, a symbol skipped by require_sympy or min_rrf_score uses no
\* top_k slot, and the result holds exactly min(top_k, number of symbols
\* passing the filters) symbols.
FiltersBeforeTopK ==
    Ran =>
        /\ Len(res.symbol_ids) = Min(call.args.top_k, Cardinality(PassingFilters))
        /\ \A i \in 1..Len(symbols) : PlaceOf(i) # 0 => i \in PassingFilters
        /\ call.args.require_sympy =>
                \A k \in 1..Len(res.symbols) : res.symbols[k].sympy_function
        /\ \A i \in PassingFilters : PlaceOf(i) = 0 =>
                \A k \in 1..Len(res.symbol_ids) :
                    locals.rrf_scores[i] <= res.scores[res.symbol_ids[k]]

\* require_sympy with top_k = 2: the symbol of highest fused score has no
\* SymPy mapping and is skipped, and the two symbols after it are returned.
FiltersWitness ==
    /\ Ran /\ Len(symbols) = 3
    /\ call.args.require_sympy /\ call.args.top_k = 2
    /\ ~symbols[locals.top_indices[1]].sympy_function
    /\ res.symbol_ids = <<symbols[locals.top_indices[2]].id,
                          symbols[locals.top_indices[3]].id>>

(***************************************************************************)
(* retrieve_batch over several problems.                                   *)
(***************************************************************************)
IsMixedBatch == call.op = "retrieve_batch_mixed"

SeqSet(s) == {s[i] : i \in 1..Len(s)}

IsInjective(s) == \A i, j \in 1..Len(s) : s[i] = s[j] => i = j

BatchPids == {call.problems[i].pid : i \in 1..Len(call.problems)}

\* The caller passed both arrays and they differ in length.
LengthMismatch ==
    /\ ~call.concept_embeddings.is_none
    /\ ~call.concept_problem_ids.is_none
    /\ Len(call.concept_problem_ids.value) # Len(call.concept_embeddings.value)

\* The caller passed a vector for pid: both arrays are given, they agree in
\* length and pid is one of the ids.
HasPrecomputed(pid) ==
    /\ ~call.concept_embeddings.is_none
    /\ ~call.concept_problem_ids.is_none
    /\ ~LengthMismatch
    /\ pid \in SeqSet(call.concept_problem_ids.value)

\* C21 as stated: a retrieve_batch call that returns has used the caller's
\* vector for exactly the query ids that have one and has called embed, once
\* each, for exactly the query ids that have none; when the id list and the
\* vector table differ in length it has used no caller's vector and has
\* embedded every query.
BatchEmbedsExactlyTheMissing ==
    (IsMixedBatch /\ ~locals.raised) =>
        /\ SeqSet(locals.supplied) = {pid \in BatchPids : HasPrecomputed(pid)}
        /\ SeqSet(locals.embed_calls) = {pid \in BatchPids : ~HasPrecomputed(pid)}
        /\ IsInjective(locals.embed_calls)
        /\ LengthMismatch =>
              /\ locals.supplied = << >>
              /\ SeqSet(locals.embed_calls) = BatchPids

\* C21 amended: every query id a retrieve_batch call processes is served from
\* the caller's vector exactly when the caller passed one for it, and embed is
\* called at most once per id and only for ids that have none; a call that
\* returns on a non-empty catalogue has embedded exactly the ids that have
\* none (on an empty catalogue retrieve returns before it embeds); when the
\* id list and the vector table differ in length no caller's vector is used.
BatchEmbedsTheMissingOnNonEmptyCatalogue ==
    IsMixedBatch =>
        /\ \A pid \in SeqSet(locals.supplied) : pid \in BatchPids /\ HasPrecomputed(pid)
        /\ \A pid \in SeqSet(locals.embed_calls) : pid \in BatchPids /\ ~HasPrecomputed(pid)
        /\ IsInjective(locals.embed_calls)
        /\ ~locals.raised =>
              /\ SeqSet(locals.supplied) = {pid \in BatchPids : HasPrecomputed(pid)}
              /\ Len(symbols) > 0 =>
                    SeqSet(locals.embed_calls) = {pid \in BatchPids : ~HasPrecomputed(pid)}
              /\ Len(symbols) = 0 => locals.embed_calls = << >>
        /\ LengthMismatch => locals.supplied = << >>

\* A batch over two queries on a non-empty catalogue that served one from the
\* caller's table and embedded the other.
BatchMixedWitness ==
    /\ IsMixedBatch
    /\ Len(symbols) > 0
    /\ ~locals.raised
    /\ Len(locals.supplied) = 1
    /\ Len(locals.embed_calls) = 1

\* A batch on a non-empty catalogue whose id list and table differ in length
\* and that embedded both of its queries.
BatchMismatchWitness ==
    /\ IsMixedBatch
    /\ Len(symbols) > 0
    /\ LengthMismatch
    /\ ~locals.raised
    /\ Len(locals.embed_calls) = 2

\* The result retrieve_batch gives the i-th problem of the call in a batch
\* that holds no other problem.
AloneInBatch(i) ==
    retrieve_batch(<<call.problems[i]>>, call.top_k, call.bm25_weight, call.dense_weight,
                   call.concept_embeddings, call.concept_problem_ids)[call.problems[i].pid]

\* The i-th problem of the call is one whose retrieval raises.
RetrievalRaises(i) ==
    IF HasPrecomputed(call.problems[i].pid)
    THEN MatmulRaises(EmbeddingLookup(call.concept_embeddings,
                                      call.concept_problem_ids)[call.problems[i].pid])
    ELSE RetrieveCallsEmbed /\ RetrieveRaises(call.problems[i])

\* C22: a failure on one query of retrieve_batch touches only that query's
\* result: the call returns a map with one entry per query id, and every
\* query whose own retrieval does not raise has the result it has in a batch
\* without the failing query.
BatchFailureStaysLocal ==
    IsMixedBatch =>
        /\ ~locals.raised
        /\ DOMAIN res = BatchPids
        /\ \A i \in 1..Len(call.problems) :
              ~RetrievalRaises(i) => res[call.problems[i].pid] = AloneInBatch(i)

\* A failed embed request alone does stay local: the call returns, the
\* failed query has the empty result and the other query has its own.
BatchEmbedErrorStaysLocal ==
    (IsMixedBatch /\ \A i \in 1..Len(call.problems) : ~RetrievalRaises(i)) =>
        /\ ~locals.raised
        /\ DOMAIN res = BatchPids
        /\ \A i \in 1..Len(call.problems) :
              res[call.problems[i].pid] = AloneInBatch(i)

(***************************************************************************)
(* The cache of symbol vectors across constructions.                       *)
(***************************************************************************)
\* The construction found a table with one row per symbol of the catalogue.
CacheMatches ==
    /\ call.op = "construct"
    /\ call.cache_before.kind = "table"
    /\ Len(call.cache_before.rows) = Len(symbols)

\* The construction before this one computed the table and saved it.
FirstComputedAndSaved ==
    /\ call.op = "construct"
    /\ prev.same
    /\ ~prev.res.raised
    /\ prev.res.embed_calls > 0
    /\ prev.call.save_ok

VectorsAlignWithCatalogue ==
    (call.op = "construct" /\ ~res.raised) =>
        /\ Len(embeddings) = Len(symbols)
        /\ \A i \in 1..Len(symbols) : embeddings[i] = EmbedText(symbols[i])

\* C24: after every construction that completes, over catalogue changes and
\* constructions that share one cache file, the stored vector at position i
\* is the embedding of the catalogue's symbol at position i; here for a
\* change that keeps the symbol count: the cache holds what a construction
\* saved for the same symbols in the opposite order, and every embed call
\* answers.
VectorsAlignAfterReordering ==
    (/\ call.op = "construct"
     /\ ~res.raised
     /\ \A i \in 1..Len(symbols) : call.embed_ok[i]
     /\ call.cache_before = Table([i \in 1..Len(symbols) |-> EmbedText(Reversed(symbols)[i])])) =>
        \A i \in 1..Len(symbols) : embeddings[i] = EmbedText(symbols[i])

(***************************************************************************)
(* The cache of query vectors: load validation, progress and writing.      *)
(***************************************************************************)
IsLoadOrCompute == call.op = "load_or_compute"

\* The file the load found is a table with one row per query id.
ConceptCacheMatches ==
    /\ call.cache_before.kind = "table"
    /\ Len(call.cache_before.rows) = Len(call.concepts_by_problem)

\* No returned row is a row of the old table.
NoStaleConceptRow ==
    \A i \in 1..Len(res.embeddings) : res.embeddings[i] # StaleVector

\* The cached table is used exactly when its row count equals the number
\* of query ids, and then as it is, with no embed call and no write.
ConceptCacheUsedOnlyWhenMatching ==
    IsLoadOrCompute =>
        /\ call.cached <=> ConceptCacheMatches
        /\ call.cached =>
            /\ res = [kind |-> "value", embeddings |-> call.cache_before.rows,
                      problem_ids |-> SortedIds(call.concepts_by_problem)]
            /\ locals.embed_calls = << >>
            /\ files.concepts_cache = call.cache_before

IsCompute == call.op \in {"compute_concept_embeddings", "load_or_compute"}

\* The call computed the query vectors and returned them.
ComputedAndReturned ==
    /\ IsCompute
    /\ res.kind = "value"
    /\ IsLoadOrCompute => ~call.cached

\* C26: during a batch query embedding that returns, the progress callback
\* is invoked exactly once per query id, with (current, total) for
\* current = 1..total in increasing order.
ProgressOncePerQueryId ==
    ComputedAndReturned =>
        locals.progress = [i \in 1..Len(call.concepts_by_problem) |->
                                <<i, Len(call.concepts_by_problem)>>]

\* What does hold: the callback is invoked, in increasing order, for
\* exactly the query ids whose embed call answered.
ProgressOncePerEmbeddedId ==
    IsCompute =>
        /\ \A i, j \in 1..Len(locals.progress) :
                i < j => locals.progress[i][1] < locals.progress[j][1]
        /\ {locals.progress[i] : i \in 1..Len(locals.progress)} =
                {<<i, Len(call.concepts_by_problem)>> : i \in
                    {k \in 1..Len(locals.embed_calls) : call.embed_ok[locals.embed_calls[k]]}}

\* C27: the cache file of query vectors is written at most once per batch
\* computation and only with the complete table, one row per query id; a
\* computation that ends with an error leaves the file exactly as it was.
ConceptCacheWrittenOnceAndWhole ==
    IsCompute =>
        /\ locals.saves <= 1
        /\ locals.saves = 1 =>
            /\ res.kind = "value"
            /\ Len(res.embeddings) = Len(call.concepts_by_problem)
        /\ files.concepts_cache # call.cache_before =>
            /\ locals.saves = 1
            /\ files.concepts_cache = Table(res.embeddings)
        /\ res.kind = "raised" =>
            /\ locals.saves = 0
            /\ files.concepts_cache = call.cache_before

\* A computation over three query ids that wrote its three rows over a table
\* of three other rows.
ConceptCacheWrittenWitness ==
    /\ call.op = "compute_concept_embeddings"
    /\ Len(call.concepts_by_problem) = 3
    /\ call.cache_before = Table(<<StaleVector, StaleVector, StaleVector>>)
    /\ locals.saves = 1
    /\ files.concepts_cache = Table(res.embeddings)
    /\ files.concepts_cache # call.cache_before

\* A computation over three query ids whose first embed call failed while a
\* table was on disk.
ConceptCacheRaisedWitness ==
    /\ call.op = "compute_concept_embeddings"
    /\ Len(call.concepts_by_problem) = 3
    /\ res.kind = "raised"
    /\ call.write = "ok"
    /\ call.cache_before.kind = "table"

(***************************************************************************)
(* Retrieval reads the store and does not write it.                        *)
(***************************************************************************)
RetrievalOps == {"retrieve", "retrieve_batch", "retrieve_batch_mixed"}

\* C28: retrieve, _retrieve_with_embedding and retrieve_batch leave the
\* catalogue, the stored symbol vectors and the persisted cache file
\* unchanged, whether the call succeeds or fails: no step that makes or
\* repeats such a call changes any of the three.
RetrievalLeavesStoreUnchanged ==
    [][call'.op \in RetrievalOps =>
            /\ symbols' = symbols
            /\ embeddings' = embeddings
            /\ files' = files]_vars

\* A retrieve whose embed request failed and a batch whose retrieval raised
\* have run on the full catalogue, which holds its symbols and vectors.
RetrievalFailedWitness ==
    /\ Len(symbols) = NumSymbols
    /\ embeddings = [i \in 1..NumSymbols |-> SymbolVector(i)]
    /\ files = NoFiles
    /\ \/ call.op = "retrieve" /\ call.args.embed.kind = "error"
       \/ IsMixedBatch /\ locals.raised

\* C29: every result of retrieve is internally consistent: symbol_ids has
\* no duplicates and lists the ids of symbols in the same order, the fused,
\* BM25 and dense score maps each have exactly the returned symbol ids as
\* keys, and the fused scores are non-increasing along symbol_ids.
ResultIsConsistent ==
    call.op = "retrieve" =>
        /\ IsInjective(res.symbol_ids)
        /\ Len(res.symbols) = Len(res.symbol_ids)
        /\ \A k \in 1..Len(res.symbols) : res.symbols[k].id = res.symbol_ids[k]
        /\ DOMAIN res.scores = SeqSet(res.symbol_ids)
        /\ DOMAIN res.bm25_scores = SeqSet(res.symbol_ids)
        /\ DOMAIN res.dense_scores = SeqSet(res.symbol_ids)
        /\ \A i, j \in 1..Len(res.symbol_ids) :
                i < j => res.scores[res.symbol_ids[i]] >= res.scores[res.symbol_ids[j]]

\* A retrieve without deduplication returned three symbols of three
\* different fused scores.
ResultIsConsistentWitness ==
    /\ call.op = "retrieve"
    /\ ~call.args.deduplicate
    /\ Len(res.symbol_ids) = 3
    /\ \A i, j \in 1..3 :
            i < j => res.scores[res.symbol_ids[i]] > res.scores[res.symbol_ids[j]]

(***************************************************************************)
(* The location of the cache of symbol vectors.  A model name is a         *)
(* sequence of characters; a path is known by whether the caller gave it   *)
(* and, when it is the default one, by the sanitised model name in its     *)
(* file name.  In this specification files maps every path written so far  *)
(* to the table it holds and to the embedding model that computed it.      *)
(***************************************************************************)
MaxNameLen == 2                   \* longest embedding model name

NameChars == {"a", "_", ":", "/"}

ModelNames == UNION {[1..k -> NameChars] : k \in 1..MaxNameLen}

\* embedding_model.replace(":", "_").replace("/", "_")
SafeModelName(embedding_model) ==
    [i \in 1..Len(embedding_model) |->
        IF embedding_model[i] \in {":", "/"} THEN "_" ELSE embedding_model[i]]

\* The embeddings_cache argument: None or a path of the caller's.
GivenCaches == {None, Some([given |-> TRUE, name |-> << >>])}

\* self.embeddings_cache
EmbeddingsCachePath(embeddings_cache, embedding_model) ==
    IF embeddings_cache.is_none
    THEN [given |-> FALSE, name |-> SafeModelName(embedding_model)]
    ELSE embeddings_cache.value

\* The file a construction finds at path.
FileAt(path) == IF path \in DOMAIN files THEN files[path].table ELSE NoFile

\* HybridRetriever(kb_path, embeddings_cache, embedding_model=...) while the
\* embedding service answers and the disk takes the write: the values of
\* call, res, embeddings and files after it.
ConstructedWithModel(embedding_model, embeddings_cache) ==
    LET path == EmbeddingsCachePath(embeddings_cache, embedding_model)
        r == load_or_compute_embeddings(Len(symbols), FileAt(path),
                                        [i \in 1..Len(symbols) |-> TRUE], TRUE)
    IN  [call |-> [op |-> "construct_model", embedding_model |-> embedding_model,
                   embeddings_cache |-> embeddings_cache, path |-> path],
         res |-> [raised |-> r.raised, embed_calls |-> r.embed_calls,
                  from_cache |-> r.from_cache,
                  vectors_of |-> IF r.from_cache THEN files[path].model
                                 ELSE embedding_model],
         embeddings |-> r.embeddings,
         files |-> IF r.cache = FileAt(path) THEN files
                   ELSE [p \in DOMAIN files \cup {path} |->
                            IF p = path THEN [table |-> r.cache, model |-> embedding_model]
                            ELSE files[p]]]

ConstructWithModel ==
    /\ call.op = "none"
    /\ \E embedding_model \in ModelNames, embeddings_cache \in GivenCaches :
        LET c == ConstructedWithModel(embedding_model, embeddings_cache)
        IN  /\ call' = c.call
            /\ res' = c.res
            /\ embeddings' = c.embeddings
            /\ files' = c.files
    /\ prev' = [same |-> FALSE]
    /\ UNCHANGED <<symbols, argsortTies, locals, rvars>>

\* A later run constructs a retriever over the same knowledge base.
ConstructWithModelAgain ==
    /\ call.op = "construct_model"
    /\ ~prev.same
    /\ \E embedding_model \in ModelNames, embeddings_cache \in GivenCaches :
        LET c == ConstructedWithModel(embedding_model, embeddings_cache)
        IN  /\ call' = c.call
            /\ res' = c.res
            /\ embeddings' = c.embeddings
            /\ files' = c.files
    /\ prev' = [same |-> TRUE, call |-> call, res |-> res]
    /\ UNCHANGED <<symbols, argsortTies, locals, rvars>>

\* The knowledge base is loaded and no cache file is on disk.
MInit ==
    /\ RIdle
    /\ \E n \in 0..NumSymbols : symbols = Catalogue(n)
    /\ embeddings = << >>
    /\ argsortTies = "stable"
    /\ call = [op |-> "none"]
    /\ res = [op |-> "none"]
    /\ locals = NoLocals
    /\ prev = [same |-> FALSE]
    /\ files = [p \in {} |-> NoFile]

MNext == ConstructWithModel \/ ConstructWithModelAgain

SpecModelCache == MInit /\ [][MNext]_vars

\* C30: the persisted cache of symbol vectors is keyed by the identity of
\* the embedding model: a retriever never loads and uses a table that a
\* retriever configured with another embedding model wrote, whatever the
\* two model names and however the cache location is configured.
CacheKeyedByModel ==
    (call.op = "construct_model" /\ res.from_cache) =>
        res.vectors_of = call.embedding_model

\* What does hold: with the default location, a table is never loaded
\* across two model names that differ after ":" and "/" are replaced.
CacheKeyedBySafeModelName ==
    (call.op = "construct_model" /\ res.from_cache /\ call.embeddings_cache.is_none) =>
        SafeModelName(res.vectors_of) = SafeModelName(call.embedding_model)

\* The default location is shared by two model names: the second
\* construction loads the table of the first.
SafeModelNamesCollide ==
    ~ /\ call.op = "construct_model"
      /\ prev.same
      /\ call.embeddings_cache.is_none
      /\ prev.call.embeddings_cache.is_none
      /\ res.from_cache
      /\ call.embedding_model # prev.call.embedding_model

====
